---------------------------- MODULE Spec2Model ----------------------------
(***************************************************************************)
(* Model of the VS Code barcode generator extension (src/src/extension.js). *)
(*                                                                         *)
(* Strings are sequences of one-character strings.  JavaScript numbers of  *)
(* the page layout are exact rationals [n |-> numerator, d |-> denominator]*)
(* in lowest terms; d = 0 stands for Infinity, -Infinity and NaN (n = 1,   *)
(* -1 and 0).                                                              *)
(***************************************************************************)
EXTENDS Integers, Sequences, FiniteSets, TLC

VARIABLES
    editor,        \* vscode.window.activeTextEditor is defined
    raw,           \* editor.document.getText(selection), before trim
    pc,            \* position of the command handler
    selectedText,  \* the handler's trimmed selection
    decision,      \* the value resolveBarcodeType resolved to (Null for null)
    classified,    \* resolveBarcodeType was called in this run
    checkCalls,    \* calls of computeEan13CheckDigit in this run
    chooserShown,  \* showQuickPick was called in this run
    pickedItem,    \* what showQuickPick resolved to in this run
    opened,        \* createWebviewPanel was called in this run
    notice,        \* the last message shown to the user
    panels,        \* number of webview panels created
    payload,       \* payload of the last panel created
    prev,          \* the decision of the previous run of the command
    expPc,         \* position of the export-pdf message handler
    image,         \* the PNG carried by the message being exported
    layout,        \* the rectangle handed to page.drawImage
    drawn,         \* page.drawImage was called by the last export
    written        \* fs.writeFile completed in the last export

expVars == <<expPc, image, layout, drawn, written>>
vars == <<editor, raw, pc, selectedText, decision, classified, checkCalls,
          chooserShown, pickedItem, opened, notice, panels, payload, prev,
          expPc, image, layout, drawn, written>>

---------------------------------------------------------------------------
(* Bounds of the model *)

\* longest raw selection
MaxLen == 14

---------------------------------------------------------------------------
(* Characters and strings *)

DigitChars == <<"0", "1", "2", "3", "4", "5", "6", "7", "8", "9">>

Digits == {DigitChars[i] : i \in 1..10}

\* one whitespace character and one letter stand for the non-digits
Whitespace == {" "}

Chars == Digits \cup Whitespace \cup {"a"}

\* Number(ch) of a one-character digit string
Number(ch) == (CHOOSE i \in 1..10 : DigitChars[i] = ch) - 1

\* the decimal text a template literal `${n}` produces for an integer n >= 0
RECURSIVE NumberToString(_)
NumberToString(n) ==
    IF n < 10 THEN <<DigitChars[n + 1]>>
    ELSE NumberToString(n \div 10) \o <<DigitChars[(n % 10) + 1]>>

\* String.prototype.trim: drop leading and trailing whitespace
RECURSIVE trimStart(_)
trimStart(s) ==
    IF s # <<>> /\ Head(s) \in Whitespace THEN trimStart(Tail(s)) ELSE s

RECURSIVE trimEnd(_)
trimEnd(s) ==
    IF s # <<>> /\ s[Len(s)] \in Whitespace
    THEN trimEnd(SubSeq(s, 1, Len(s) - 1)) ELSE s

trim(s) == trimEnd(trimStart(s))

\* the test with an open quantifier, /^\d{n,}$/.test(value)
MatchesDigitsAtLeast(value, n) ==
    /\ Len(value) >= n
    /\ \A i \in 1..Len(value) : value[i] \in Digits

\* /^\d{n}$/.test(value)
MatchesDigits(value, n) ==
    /\ Len(value) = n
    /\ \A i \in 1..Len(value) : value[i] \in Digits

\* String.prototype.slice(from, to) with 0 <= from <= to (0-based, to excluded)
slice(s, from, to) ==
    SubSeq(s, from + 1, IF to < Len(s) THEN to ELSE Len(s))

---------------------------------------------------------------------------
(* EAN13 check digit *)

\* the loop of computeEan13CheckDigit from index i (0-based) with sum so far
RECURSIVE CheckDigitLoop(_, _, _)
CheckDigitLoop(base12, i, sum) ==
    IF i < Len(base12)
    THEN LET digit == Number(base12[i + 1])
         IN  CheckDigitLoop(base12, i + 1,
                 sum + (IF i % 2 = 0 THEN digit ELSE digit * 3))
    ELSE sum

\* the loop with the two weights exchanged
RECURSIVE CheckDigitLoopSwapped(_, _, _)
CheckDigitLoopSwapped(base12, i, sum) ==
    IF i < Len(base12)
    THEN LET digit == Number(base12[i + 1])
         IN  CheckDigitLoopSwapped(base12, i + 1,
                 sum + (IF i % 2 = 0 THEN digit * 3 ELSE digit))
    ELSE sum

computeEan13CheckDigitSwapped(base12) ==
    LET mod == CheckDigitLoopSwapped(base12, 0, 0) % 10
    IN  IF mod = 0 THEN 0 ELSE 10 - mod

\* the check digit without the special case for mod = 0
computeEan13CheckDigitNoZeroCase(base12) ==
    10 - (CheckDigitLoop(base12, 0, 0) % 10)

computeEan13CheckDigit(base12) ==
    LET mod == CheckDigitLoop(base12, 0, 0) % 10
    IN  IF mod = 0 THEN 0 ELSE 10 - mod

\* validation against the 12th digit instead of the 13th
isValidEan13WrongIndex(full13) ==
    LET expected == computeEan13CheckDigit(slice(full13, 0, 12))
    IN  Number(full13[12]) = expected

\* validation that sums all 13 digits
isValidEan13NoSlice(full13) ==
    LET expected == computeEan13CheckDigit(full13)
    IN  Number(full13[13]) = expected

isValidEan13(full13) ==
    LET expected == computeEan13CheckDigit(slice(full13, 0, 12))
    IN  Number(full13[13]) = expected

---------------------------------------------------------------------------
(* Decisions *)

\* the null a run resolves to when no barcode is to be generated
Null == [type |-> "null", value |-> <<>>, label |-> ""]

Decision(type, value, label) == [type |-> type, value |-> value, label |-> label]

\* the items of the quick pick
QuickPickItems ==
    { [label |-> "Code 128", type |-> "code128"],
      [label |-> "QR Code", type |-> "qrcode"] }

\* what showQuickPick may resolve to: an item, or Null when dismissed
NoPick == [label |-> "", type |-> "null"]

\* showQuickPick has not resolved
Pending == [label |-> "", type |-> "pending"]

Picks == QuickPickItems \cup {NoPick}


\* resolveBarcodeType up to its first return or its await of showQuickPick:
\* returned = FALSE means the quick pick is open and the function is suspended
\* (notice "none": no message is shown)
resolveBarcodeTypeSync(value) ==
    IF MatchesDigits(value, 12)
    THEN LET completed == value \o NumberToString(computeEan13CheckDigit(value))
         IN  [returned |-> TRUE, notice |-> "Ean13Generated", checks |-> 1,
              decision |-> Decision("ean13", completed, "EAN13")]
    ELSE IF MatchesDigits(value, 13)
    THEN IF ~isValidEan13(value)
         THEN [returned |-> TRUE, notice |-> "InvalidEan13", checks |-> 1,
               decision |-> Null]
         ELSE [returned |-> TRUE, notice |-> "none", checks |-> 1,
               decision |-> Decision("ean13", value, "EAN13")]
    ELSE [returned |-> FALSE, notice |-> "none", checks |-> 0,
          decision |-> Null]

\* a quick pick that substitutes Code 128 when it is dismissed
resolveBarcodeTypePickedDefault(value, picked) ==
    IF picked = NoPick
    THEN Decision("code128", value, "Code 128")
    ELSE Decision(picked.type, value, picked.label)

\* resolveBarcodeType after showQuickPick resolved to picked
resolveBarcodeTypePicked(value, picked) ==
    IF picked = NoPick
    THEN Null
    ELSE Decision(picked.type, value, picked.label)

---------------------------------------------------------------------------
(* Selections the editor may hold *)

\* known-good EAN13 codes; a selection is a prefix of one of them, repeated
\* when longer, either with whitespace around it or, in the four longest
\* prefixes, with one character replaced by any character
Seeds ==
    { <<"4", "0", "0", "6", "3", "8", "1", "3", "3", "3", "9", "3", "1">>,
      <<"0", "1", "2", "3", "4", "5", "6", "7", "8", "9", "0", "5", "0">> }

SeedText(seed, n) == [i \in 1..n |-> seed[((i - 1) % Len(seed)) + 1]]

Selections ==
    LET plain == { SeedText(seed, n) : seed \in Seeds, n \in 0..MaxLen }
    IN  plain \cup
        { <<" ">> \o t : t \in plain } \cup
        { t \o <<" ">> : t \in plain } \cup
        { <<" ">> \o t \o <<" ">> : t \in plain } \cup
        { [t EXCEPT ![i] = c] : <<t, i, c>> \in
            { <<t, i, c>> \in plain \X (1..MaxLen) \X Chars :
                i <= Len(t) /\ Len(t) + 3 >= MaxLen } }

---------------------------------------------------------------------------
(* The command handler *)

\* the handler without the guard on an empty selection
CommandBodyNoEmptyGuard ==
    IF ~editor
    THEN /\ notice' = "NoEditor"
         /\ pc' = "done"
         /\ UNCHANGED <<selectedText, decision, classified, checkCalls, chooserShown>>
    ELSE LET text == trim(raw)
             r == resolveBarcodeTypeSync(text)
         IN  /\ selectedText' = text
             /\ classified' = TRUE
             /\ checkCalls' = r.checks
             /\ chooserShown' = ~r.returned
             /\ notice' = (IF r.notice = "none" THEN notice ELSE r.notice)
             /\ decision' = r.decision
             /\ pc' = IF ~r.returned THEN "pick"
                      ELSE IF r.decision = Null THEN "done" ELSE "open"

\* lines 10-27 of the handler, up to the first await that suspends it
CommandBody ==
    IF ~editor
    THEN /\ notice' = "NoEditor"
         /\ pc' = "done"
         /\ UNCHANGED <<selectedText, decision, classified, checkCalls, chooserShown>>
    ELSE LET text == trim(raw)
         IN  /\ selectedText' = text
             /\ IF text = <<>>
                THEN /\ notice' = "NoInput"
                     /\ pc' = "done"
                     /\ UNCHANGED <<decision, classified, checkCalls, chooserShown>>
                ELSE LET r == resolveBarcodeTypeSync(text)
                     IN  /\ classified' = TRUE
                         /\ checkCalls' = r.checks
                         /\ chooserShown' = ~r.returned
                         /\ notice' = (IF r.notice = "none" THEN notice ELSE r.notice)
                         /\ decision' = r.decision
                         /\ pc' = IF ~r.returned THEN "pick"
                                  ELSE IF r.decision = Null THEN "done" ELSE "open"

Command ==
    /\ pc = "idle"
    /\ CommandBody
    /\ UNCHANGED <<editor, raw, pickedItem, opened, panels, payload, prev>>
    /\ UNCHANGED expVars

\* showQuickPick resolves; resolveBarcodeType and then the handler resume
QuickPick ==
    /\ pc = "pick"
    /\ \E item \in Picks :
         /\ pickedItem' = item
         /\ decision' = resolveBarcodeTypePicked(selectedText, item)
         /\ pc' = IF decision' = Null THEN "done" ELSE "open"
    /\ UNCHANGED <<editor, raw, selectedText, classified, checkCalls,
                   chooserShown, opened, notice, panels, payload, prev>>
    /\ UNCHANGED expVars

\* openBarcodeWebview(context, decision); qrOk: QRCode.toDataURL did not throw
OpenBarcodeWebview ==
    /\ pc = "open"
    /\ \E qrOk \in BOOLEAN :
         IF decision.type = "qrcode" /\ ~qrOk
         THEN /\ notice' = "QrFailed"
              /\ UNCHANGED <<panels, payload, opened>>
         ELSE /\ panels' = panels + 1
              /\ payload' = decision
              /\ opened' = TRUE
              /\ UNCHANGED notice
    /\ pc' = "done"
    /\ UNCHANGED <<editor, raw, selectedText, decision, classified, checkCalls,
                   chooserShown, pickedItem, prev>>
    /\ UNCHANGED expVars

\* the user selects the value of the EAN13 just generated and runs the
\* command once more
RunAgain ==
    /\ pc = "done"
    /\ prev = Null
    /\ decision.type = "ean13"
    /\ raw' = decision.value
    /\ prev' = decision
    /\ pc' = "idle"
    /\ selectedText' = <<>>
    /\ decision' = Null
    /\ classified' = FALSE
    /\ checkCalls' = 0
    /\ chooserShown' = FALSE
    /\ pickedItem' = Pending
    /\ opened' = FALSE
    /\ notice' = "none"
    /\ UNCHANGED <<editor, panels, payload>>
    /\ UNCHANGED expVars

---------------------------------------------------------------------------
(* Exact rational arithmetic for the layout numbers *)

Abs(k) == IF k < 0 THEN -k ELSE k

RECURSIVE GCD(_, _)
GCD(a, b) == IF b = 0 THEN a ELSE GCD(b, a % b)

\* n/d in lowest terms with d > 0; n/0 is Infinity, -Infinity or NaN
Rat(n, d) ==
    IF d = 0 THEN [n |-> IF n > 0 THEN 1 ELSE IF n < 0 THEN -1 ELSE 0, d |-> 0]
    ELSE LET g == GCD(Abs(n), Abs(d))
             sign == IF d < 0 THEN -1 ELSE 1
         IN  [n |-> sign * (n \div g), d |-> sign * (d \div g)]

Whole(k) == [n |-> k, d |-> 1]

\* an/ad <= bn/bd for ad > 0 and bd > 0, by comparing the integer parts and
\* then the reciprocals of the fractional parts
RECURSIVE FracLeq(_, _, _, _)
FracLeq(an, ad, bn, bd) ==
    LET qa == an \div ad
        qb == bn \div bd
        ra == an % ad
        rb == bn % bd
    IN  IF qa # qb THEN qa < qb
        ELSE IF ra = 0 THEN TRUE
        ELSE IF rb = 0 THEN FALSE
        ELSE FracLeq(bd, rb, ad, ra)

\* a <= b
RLeq(a, b) ==
    IF a.d = 0 \/ b.d = 0
    THEN /\ ~(a.d = 0 /\ a.n = 0)
         /\ ~(b.d = 0 /\ b.n = 0)
         /\ IF a.d = 0 THEN a.n < 0 \/ (b.d = 0 /\ b.n > 0) ELSE b.n > 0
    ELSE FracLeq(a.n, a.d, b.n, b.d)

\* a - b and a + b for finite a, b, over the least common denominator
RSub(a, b) ==
    LET g == GCD(a.d, b.d)
    IN  Rat(a.n * (b.d \div g) - b.n * (a.d \div g), a.d * (b.d \div g))

RAdd(a, b) ==
    LET g == GCD(a.d, b.d)
    IN  Rat(a.n * (b.d \div g) + b.n * (a.d \div g), a.d * (b.d \div g))

\* a / k for an integer k
RDivInt(a, k) ==
    IF k = 0 THEN Rat(a.n, 0)
    ELSE LET g == GCD(Abs(a.n), Abs(k))
         IN  Rat(a.n \div g, a.d * (k \div g))

\* k * a for an integer k
RMulInt(k, a) ==
    IF a.d = 0 THEN Rat(k * a.n, 0)
    ELSE LET g == GCD(Abs(k), a.d)
         IN  Rat((k \div g) * a.n, a.d \div g)

\* Math.min of two and of three numbers
Min2(a, b) ==
    IF a.d = 0 /\ a.n = 0 THEN a
    ELSE IF b.d = 0 /\ b.n = 0 THEN b
    ELSE IF RLeq(a, b) THEN a ELSE b

Min3(a, b, c) == Min2(Min2(a, b), c)

---------------------------------------------------------------------------
(* The page layout of exportPdfFromPngDataUrl *)

\* 595.28 and 841.89, in hundredths
A4WidthHundredths == 59528

A4HeightHundredths == 84189

a4Width == Rat(A4WidthHundredths, 100)

a4Height == Rat(A4HeightHundredths, 100)

margin == 36

maxWidth == RSub(a4Width, Whole(margin * 2))

maxHeight == RSub(a4Height, Whole(margin * 2))

\* the scale without the cap at 1
scaleUncapped(width, height) ==
    Min2(RDivInt(maxWidth, width), RDivInt(maxHeight, height))

\* the scale that fits the width only
scaleWidthOnly(width, height) ==
    Min2(RDivInt(maxWidth, width), Whole(1))

scale(width, height) ==
    Min3(RDivInt(maxWidth, width), RDivInt(maxHeight, height), Whole(1))

\* lines 189-193: the options of page.drawImage for a width x height image
fit(width, height) ==
    LET drawWidth == RMulInt(width, scale(width, height))
        drawHeight == RMulInt(height, scale(width, height))
    IN  [drawWidth |-> drawWidth, drawHeight |-> drawHeight,
         x |-> RDivInt(RSub(a4Width, drawWidth), 2),
         y |-> RDivInt(RSub(a4Height, drawHeight), 2)]

NoLayout == [drawWidth |-> Whole(0), drawHeight |-> Whole(0), x |-> Whole(0), y |-> Whole(0)]

NoImage == [width |-> 0, height |-> 0]

\* pixel sizes of the PNG of a message: none, smaller than, at and beyond the
\* margined area of 523.28 x 769.89
ImageWidths == {0, 100, 524, 1400}

ImageHeights == {0, 180, 770, 2000}

\* what the webview may post: nothing, another message, an export-pdf
\* message without a PNG data URL, or one with a PNG of some size
Messages ==
    { [type |-> t, png |-> FALSE, width |-> 0, height |-> 0] :
        t \in {"none", "other", "export-pdf"} }
    \cup
    { [type |-> "export-pdf", png |-> TRUE, width |-> w, height |-> h] :
        w \in ImageWidths, h \in ImageHeights }

\* onDidReceiveMessage, with exportPdfFromPngDataUrl up to its await of
\* showSaveDialog
ReceiveMessage ==
    /\ panels > 0
    /\ expPc = "idle"
    /\ \E message \in Messages :
         IF message.type # "export-pdf"
         THEN /\ UNCHANGED notice
              /\ UNCHANGED expVars
         ELSE IF ~message.png
         THEN /\ notice' = "InvalidImage"
              /\ UNCHANGED expVars
         ELSE /\ expPc' = "saveDialog"
              /\ image' = [width |-> message.width, height |-> message.height]
              /\ layout' = NoLayout
              /\ drawn' = FALSE
              /\ written' = FALSE
              /\ UNCHANGED notice
    /\ UNCHANGED <<editor, raw, pc, selectedText, decision, classified,
                   checkCalls, chooserShown, pickedItem, opened, panels, payload, prev>>

\* showSaveDialog resolves and exportPdfFromPngDataUrl runs to its end;
\* embedOk: dataUrlToBytes, PDFDocument.create and embedPng did not throw,
\* saveOk: pdf.save and fs.writeFile did not throw
ExportPdf ==
    /\ expPc = "saveDialog"
    /\ \E saveUri \in BOOLEAN, embedOk \in BOOLEAN, saveOk \in BOOLEAN :
         IF ~saveUri
         THEN UNCHANGED <<layout, drawn, written, notice>>
         ELSE IF ~embedOk
         THEN /\ notice' = "PdfFailed"
              /\ UNCHANGED <<layout, drawn, written>>
         ELSE /\ layout' = fit(image.width, image.height)
              /\ drawn' = TRUE
              /\ written' = saveOk
              /\ notice' = IF saveOk THEN "PdfExported" ELSE "PdfFailed"
    /\ expPc' = "idle"
    /\ UNCHANGED image
    /\ UNCHANGED <<editor, raw, pc, selectedText, decision, classified,
                   checkCalls, chooserShown, pickedItem, opened, panels, payload, prev>>

---------------------------------------------------------------------------
(* The specification *)

Init ==
    /\ editor \in BOOLEAN
    /\ raw \in (IF editor THEN Selections ELSE {<<>>})
    /\ pc = "idle"
    /\ selectedText = <<>>
    /\ decision = Null
    /\ classified = FALSE
    /\ checkCalls = 0
    /\ chooserShown = FALSE
    /\ pickedItem = Pending
    /\ opened = FALSE
    /\ notice = "none"
    /\ panels = 0
    /\ payload = Null
    /\ prev = Null
    /\ expPc = "idle"
    /\ image = NoImage
    /\ layout = NoLayout
    /\ drawn = FALSE
    /\ written = FALSE

Next ==
    \/ Command
    \/ QuickPick
    \/ OpenBarcodeWebview
    \/ RunAgain
    \/ ReceiveMessage
    \/ ExportPdf

Spec == Init /\ [][Next]_vars

---------------------------------------------------------------------------
(* The properties of the classifier *)

\* the sum of the digits of d at the 1-based positions in P
RECURSIVE DigitSum(_, _)
DigitSum(d, P) ==
    IF P = {} THEN 0
    ELSE LET i == CHOOSE j \in P : TRUE
         IN  Number(d[i]) + DigitSum(d, P \ {i})

\* the check digit of the twelve digits d as the specification states it:
\* weight 1 at the even 0-based positions, weight 3 at the odd ones
WeightedSum(d) ==
    DigitSum(d, {i \in 1..12 : (i - 1) % 2 = 0})
        + 3 * DigitSum(d, {i \in 1..12 : (i - 1) % 2 = 1})

ExpectedCheckDigit(d) == (10 - (WeightedSum(d) % 10)) % 10

IsDigitString(t, n) == Len(t) = n /\ \A i \in 1..Len(t) : t[i] \in Digits

\* a 13-digit string whose last digit is the check digit of the first twelve
IsChecksumValid(t) ==
    /\ IsDigitString(t, 13)
    /\ t[13] = DigitChars[ExpectedCheckDigit(SubSeq(t, 1, 12)) + 1]

\* C1: a selection of exactly 12 digits always resolves to an EAN13 decision
\* whose value is the 12 digits followed by the one check digit
\* (10 - (S mod 10)) mod 10, and the chooser is never shown for it.
C1_TwelveDigitsCompleted ==
    (classified /\ IsDigitString(selectedText, 12)) =>
        /\ decision.type = "ean13"
        /\ Len(decision.value) = 13
        /\ SubSeq(decision.value, 1, 12) = selectedText
        /\ decision.value[13] = DigitChars[ExpectedCheckDigit(selectedText) + 1]
        /\ ~chooserShown
        /\ pickedItem = Pending
        /\ pc # "pick"

C1_Witness ==
    /\ classified
    /\ IsDigitString(selectedText, 12)
    /\ selectedText \notin {SubSeq(seed, 1, 12) : seed \in Seeds}
    /\ decision.type = "ean13"
    /\ decision.value[13] = "7"

\* C2: a selection of exactly 13 digits whose 13th digit is not the check
\* digit of the first 12 is rejected: no decision, no chooser, no preview.
C2_InvalidChecksumRejected ==
    (classified /\ IsDigitString(selectedText, 13) /\ ~IsChecksumValid(selectedText)) =>
        /\ decision = Null
        /\ pc = "done"
        /\ notice = "InvalidEan13"
        /\ ~chooserShown
        /\ pickedItem = Pending
        /\ ~opened

C2_Witness ==
    /\ classified
    /\ IsDigitString(selectedText, 13)
    /\ ~IsChecksumValid(selectedText)
    /\ SubSeq(selectedText, 1, 12) \in {SubSeq(seed, 1, 12) : seed \in Seeds}
    /\ pc = "done"
    /\ notice = "InvalidEan13"

\* C3: resolving the value of an EAN13 decision once more gives the same
\* decision, and every 13-digit selection with a valid check digit resolves
\* to an EAN13 decision with the selection as its value.
C3_ValidThirteenUnchanged ==
    /\ (classified /\ prev # Null) => (decision = prev /\ ~chooserShown)
    /\ (classified /\ IsChecksumValid(selectedText)) =>
           (decision = Decision("ean13", selectedText, "EAN13") /\ ~chooserShown)

\* the second run resolved a value the first run completed from 12 digits
C3_Witness ==
    /\ classified
    /\ prev # Null
    /\ prev.value \notin Selections
    /\ decision = prev
    /\ opened

\* C4: a non-empty trimmed selection that is neither 12 nor 13 digits goes to
\* the chooser: it is never an EAN13 and never rejected as one, the decision
\* is Code 128 or QR Code as picked, and its value is the selection itself.
C4_OtherTextAmbiguous ==
    (classified /\ ~IsDigitString(selectedText, 12) /\ ~IsDigitString(selectedText, 13)) =>
        /\ chooserShown
        /\ checkCalls = 0
        /\ notice # "InvalidEan13"
        /\ notice # "Ean13Generated"
        /\ decision.type \in {"null", "code128", "qrcode"}
        /\ (decision # Null =>
               /\ decision.value = selectedText
               /\ decision.type = pickedItem.type
               /\ decision.label = pickedItem.label
               /\ pickedItem \in QuickPickItems)
        /\ (pc = "pick" <=> pickedItem = Pending)

\* 14 digits, resolved to a Code 128 of these 14 digits
C4_Witness ==
    /\ classified
    /\ IsDigitString(selectedText, 14)
    /\ decision = Decision("code128", selectedText, "Code 128")
    /\ opened

\* C5: every EAN13 decision, of this run, of the previous run or shown in a
\* panel, has a value of exactly 13 digits whose 13th digit is the check
\* digit of the first 12.
C5_Ean13DecisionValid ==
    \A d \in {decision, prev, payload} :
        d.type = "ean13" => IsChecksumValid(d.value)

\* an EAN13 completed with the check digit 0
C5_Witness ==
    /\ IsDigitString(selectedText, 12)
    /\ decision.type = "ean13"
    /\ decision.value[13] = "0"
    /\ payload = decision

\* C6: when the chooser is dismissed the run ends with no decision and no
\* preview; a preview is only ever opened for a decision that was produced.
C6_DismissedChooserAbandons ==
    /\ pickedItem = NoPick => (decision = Null /\ pc = "done" /\ ~opened)
    /\ opened => (decision # Null /\ payload = decision /\ panels > 0)
    /\ pc = "open" => decision # Null
    /\ panels > 0 => payload # Null

C6_Witness ==
    /\ pickedItem = NoPick
    /\ pc = "done"
    /\ decision = Null
    /\ selectedText # <<>>

\* C10: a selection that is empty after trimming ends the run with the
\* NoInput error before classification: no check digit, no chooser, no
\* preview; classification only receives non-empty trimmed strings.
C10_EmptySelectionRejected ==
    /\ (editor /\ pc # "idle" /\ \A i \in 1..Len(raw) : raw[i] \in Whitespace) =>
           /\ pc = "done"
           /\ notice = "NoInput"
           /\ ~classified
           /\ checkCalls = 0
           /\ ~chooserShown
           /\ ~opened
           /\ decision = Null
    /\ classified =>
           /\ selectedText # <<>>
           /\ Head(selectedText) \notin Whitespace
           /\ selectedText[Len(selectedText)] \notin Whitespace

\* a selection of whitespace only
C10_Witness ==
    /\ editor
    /\ raw # <<>>
    /\ \A i \in 1..Len(raw) : raw[i] \in Whitespace
    /\ pc = "done"
    /\ notice = "NoInput"

---------------------------------------------------------------------------
(* The properties of the page layout *)

\* the source image of the last export that reached page.drawImage
Exported == drawn /\ expPc = "idle"

PositiveImage == image.width > 0 /\ image.height > 0

\* the image fits in the margined area of 523.28 x 769.89 as it is
FitsAsIs == image.width * 100 <= 52328 /\ image.height * 100 <= 76989

\* min(maxWidth / width, maxHeight / height, 1) as the specification states
\* it, for a positive image: 1 when the image fits, else the smaller quotient
ExpectedScale ==
    IF FitsAsIs THEN Rat(1, 1)
    ELSE IF 52328 * image.height <= 76989 * image.width
         THEN Rat(52328, 100 * image.width)
         ELSE Rat(76989, 100 * image.height)

C9_DegenerateImageAborts ==
    (image.width <= 0 \/ image.height <= 0) => (~drawn /\ ~written)

=============================================================================
